---- MODULE Spec2Model ----
(***************************************************************************)
(* State-machine model of the order / stock / debt-ledger handlers of the  *)
(* POS-CRM server (routes/orders.js, routes/users.js) over the tables of   *)
(* supabase-migration.sql.  Amounts are whole currency units.  NULL is     *)
(* written 0 for ids and "" / "NULL" for strings.                          *)
(***************************************************************************)
EXTENDS Integers, Sequences, FiniteSets, TLC

VARIABLES users, products, orders, order_items, nextOrderId, ledger, now, last, proc

vars == <<users, products, orders, order_items, nextOrderId, ledger, now, last, proc>>

(***************************************************************************)
(* Bounds of the model.                                                    *)
(***************************************************************************)
\* requests served in one behaviour
MaxRequests == 2
\* months the clock can reach
MaxTime == 4

(***************************************************************************)
(* Program constants.                                                      *)
(***************************************************************************)
\* DECIMAL(10,2): a stored amount has fewer than 9 integer digits
DecimalLimit == 100000000
\* setMonth(getMonth() - 3): the cleanup keeps three months
CleanupAge == 3

(***************************************************************************)
(* Seed data: users 1 (admin), 2 and 3 (clients); products 1..5.           *)
(***************************************************************************)
AdminId == 1
UserIds == {1, 2, 3}
Role == [u \in UserIds |-> IF u = AdminId THEN "admin" ELSE "client"]

\* products 1..3 are accessories (A, B, C), 4 is a smartphone, 5 is disabled
ProductIds == {1, 2, 3, 4, 5}
Price == <<10, 5, 20, 100, 7>>
InitStock == <<3, 3, 1, 1, 2>>
Category == <<"accessories", "accessories", "accessories", "smartphones", "accessories">>
StockStatus == <<"enabled", "enabled", "enabled", "enabled", "disabled">>

Currencies == {"EUR", "MKD"}

(***************************************************************************)
(* Generic helpers.                                                        *)
(***************************************************************************)
RECURSIVE SumSeq(_)
SumSeq(s) == IF s = <<>> THEN 0 ELSE Head(s) + SumSeq(Tail(s))

Max(a, b) == IF a > b THEN a ELSE b

\* a value fits a DECIMAL(10,2) column
Storable(a) == -DecimalLimit < a /\ a < DecimalLimit

\* lineTotal of one item row
LineTotal(item) == item.quantity * item.price

\* smartphones are settled in EUR, every other category in MKD
CurrencyOfCategory(category) == IF category = "smartphones" THEN "EUR" ELSE "MKD"

\* SELECT category FROM products WHERE id = $1; rows[0]?.category
CategoryOf(prods, productId) ==
  IF productId \in DOMAIN prods THEN prods[productId].category ELSE "undefined"

(***************************************************************************)
(* Request bodies.                                                         *)
(***************************************************************************)
\* product ids a request can name: the seeded ones and one that does not exist
RequestProductIds == ProductIds \cup {6}
Statuses == {"pending", "completed"}

\* items of POST /orders: productId and quantity (the price is read from products)
Item(p, q) == [productId |-> p, quantity |-> q]
CreateItemLists ==
  { <<Item(1, 2), Item(2, 1)>>, <<Item(4, 1)>>,
    <<Item(1, 1), Item(4, 1)>>, <<Item(1, 2), Item(1, 2)>>,
    <<Item(6, 1)>>, <<Item(1, 1), Item(5, 1)>>, <<Item(3, 2)>> }

\* clientId and guestName of POST /orders: neither, a client, or a guest
OwnerChoices ==
  { [clientId |-> 0, guestName |-> ""], [clientId |-> 2, guestName |-> ""],
    [clientId |-> 0, guestName |-> "Guest"], [clientId |-> 2, guestName |-> "Guest"] }

\* discount, totalEur, totalMkd of POST /orders (all default to 0)
NoDiscount == [discount |-> 0, totalEur |-> 0, totalMkd |-> 0]
DiscountChoices == {NoDiscount, [discount |-> 1, totalEur |-> 0, totalMkd |-> 4]}

\* the item lists that are also sent with discounted totals, for a guest or
\* as a completed order
DiscountedItemLists == { <<Item(1, 2), Item(2, 1)>>, <<Item(1, 1), Item(4, 1)>> }

(***************************************************************************)
(* The response of the last handled request (res.status(..).json(..)),     *)
(* with the request fields the handlers echo or log.                       *)
(***************************************************************************)
NoResponse ==
  [seq |-> 0, op |-> "none", code |-> 0, message |-> "", orderId |-> 0, userId |-> 0,
   itemsUpdated |-> FALSE, itemsRestored |-> 0, hasItems |-> FALSE, items |-> <<>>,
   originalItems |-> <<>>, status |-> "", totalEur |-> 0, totalMkd |-> 0, debt |-> 0,
   currency |-> "NULL", error |-> "", preserveDiscount |-> FALSE, originalDiscount |-> 0]

Response(op, code, message) ==
  [NoResponse EXCEPT !.seq = last.seq + 1, !.op = op, !.code = code, !.message = message]

\* the requests of one behaviour: at most MaxRequests are served
Serving == last.seq < MaxRequests

\* the requests that are served at the same time, and what the handler of each
\* holds in its local variables and in its open transaction
Procs == {1, 2}
NoTables == [products |-> <<>>, orders |-> <<>>, order_items |-> <<>>, ledger |-> <<>>]
IdleProc ==
  [pc |-> "idle", actor |-> 0, items |-> <<>>, originalItems |-> <<>>, k |-> 0,
   rows |-> <<>>, orderId |-> 0, code |-> 0, locks |-> {}, writing |-> FALSE,
   work |-> NoTables, base |-> NoTables, readAt |-> 0, endAt |-> 0]

(***************************************************************************)
(* Tables after the migration: seeded users and products, no orders, an    *)
(* empty ledger.                                                           *)
(***************************************************************************)
SeedProducts ==
  [p \in ProductIds |->
     [price |-> Price[p], stock_quantity |-> InitStock[p],
      stock_status |-> StockStatus[p], category |-> Category[p]]]

Init ==
  /\ users = UserIds
  /\ products = SeedProducts
  /\ orders = << >>
  /\ order_items = << >>
  /\ nextOrderId = 1
  /\ ledger = << >>
  /\ now = 0
  /\ last = NoResponse
  /\ proc = [p \in Procs |-> IdleProc]

(***************************************************************************)
(* Ledger rows (user_debt_adjustments).                                    *)
(***************************************************************************)
LedgerEntry(userId, amount, currency, notes, createdBy, createdAt) ==
  [user_id |-> userId, adjustment_amount |-> amount,
   adjustment_type |-> "manual_reduction", currency |-> currency,
   notes |-> notes, created_by |-> createdBy, created_at |-> createdAt]

\* INSERT INTO user_debt_adjustments succeeds: foreign keys, CHECK, DECIMAL(10,2)
LedgerInsertOk(us, entry) ==
  /\ entry.user_id \in us
  /\ entry.created_by \in us
  /\ entry.currency \in Currencies \cup {"NULL"}
  /\ Storable(entry.adjustment_amount)

(***************************************************************************)
(* POST /orders                                                            *)
(***************************************************************************)
\* a validation that forgets the stock_status check
ItemErrorIgnoringStatus(prods, item) ==
  IF item.productId \notin DOMAIN prods THEN "not found"
  ELSE IF prods[item.productId].stock_quantity < item.quantity THEN "Insufficient stock"
  ELSE "ok"

\* the validation loop over req.body.items: the first item that fails decides
ItemError(prods, item) ==
  IF item.productId \notin DOMAIN prods THEN "not found"
  ELSE IF prods[item.productId].stock_status = "disabled" THEN "not available"
  ELSE IF prods[item.productId].stock_quantity < item.quantity THEN "Insufficient stock"
  ELSE "ok"

ValidationError(prods, items) ==
  IF \E i \in DOMAIN items : ItemError(prods, items[i]) # "ok"
  THEN LET i == CHOOSE k \in DOMAIN items :
                  /\ ItemError(prods, items[k]) # "ok"
                  /\ \A j \in 1..(k - 1) : ItemError(prods, items[j]) = "ok"
       IN ItemError(prods, items[i])
  ELSE "ok"

\* validatedItems: the price is the product's price at the time of the order
ValidatedItems(prods, items) ==
  [i \in DOMAIN items |->
     [product_id |-> items[i].productId, quantity |-> items[i].quantity,
      price |-> prods[items[i].productId].price]]

\* eurPendingTotal / mkdPendingTotal
PendingTotal(prods, rows, currency) ==
  SumSeq([i \in DOMAIN rows |->
            IF CurrencyOfCategory(CategoryOf(prods, rows[i].product_id)) = currency
            THEN LineTotal(rows[i]) ELSE 0])

\* a decrement loop that stops after the first row
DecrementFirstRowOnly(prods, rows) ==
  IF rows = <<>> THEN prods
  ELSE [prods EXCEPT ![rows[1].product_id].stock_quantity = @ - rows[1].quantity]

\* UPDATE products SET stock_quantity = stock_quantity - quantity, row by row
RECURSIVE DecrementStock(_, _)
DecrementStock(prods, rows) ==
  IF rows = <<>> THEN prods
  ELSE LET r == Head(rows)
       IN DecrementStock(
            [prods EXCEPT ![r.product_id].stock_quantity = @ - r.quantity], Tail(rows))

\* a guard that forgets the status of the order
RecordsDebtForAnyStatus(guestName, clientId, status) == guestName = "" /\ clientId # 0

\* if (!guestInfo && clientId && status === 'pending')
RecordsDebt(guestName, clientId, status) ==
  guestName = "" /\ clientId # 0 /\ status = "pending"

\* the debt-increase rows written for a pending client order
CreationEntries(clientId, finalEurTotal, finalMkdTotal, actor, t) ==
  (IF finalEurTotal > 0
   THEN <<LedgerEntry(clientId, -finalEurTotal, "EUR",
                      "Debt increase from pending order", actor, t)>>
   ELSE <<>>)
  \o
  (IF finalMkdTotal > 0
   THEN <<LedgerEntry(clientId, -finalMkdTotal, "MKD",
                      "Debt increase from pending order", actor, t)>>
   ELSE <<>>)

CreateOrder(actor, requestedClientId, guestName, status, items, disc) ==
  LET isAdmin == Role[actor] = "admin"
      clientId == IF guestName # "" THEN 0
                  ELSE IF requestedClientId # 0 THEN requestedClientId ELSE actor
      err == ValidationError(products, items)
      rows == ValidatedItems(products, items)
      totalAmount == SumSeq([i \in DOMAIN rows |-> LineTotal(rows[i])])
      finalEurTotal == IF disc.totalEur > 0 THEN disc.totalEur
                       ELSE PendingTotal(products, rows, "EUR")
      finalMkdTotal == IF disc.totalMkd > 0 THEN disc.totalMkd
                       ELSE PendingTotal(products, rows, "MKD")
      finalTotalAmount == finalEurTotal + finalMkdTotal
      orderId == nextOrderId
      entries == IF RecordsDebt(guestName, clientId, status)
                 THEN CreationEntries(clientId, finalEurTotal, finalMkdTotal, actor, now)
                 ELSE <<>>
      unchanged == UNCHANGED <<users, products, orders, order_items, nextOrderId, ledger, now>>
  IN
  IF requestedClientId # 0 /\ ~isAdmin
  THEN /\ last' = Response("createOrder", 403, "Only admins can assign orders to other clients")
       /\ unchanged
  ELSE IF guestName # "" /\ ~isAdmin
  THEN /\ last' = Response("createOrder", 403, "Only admins can create guest orders")
       /\ unchanged
  ELSE IF err # "ok"
  THEN /\ last' = [Response("createOrder", 400, err) EXCEPT !.items = items]
       /\ unchanged
  ELSE IF \/ clientId # 0 /\ clientId \notin users
          \/ ~Storable(finalTotalAmount) \/ ~Storable(totalAmount)
  THEN \* INSERT INTO orders violates the foreign key or overflows: nothing written
       /\ last' = Response("createOrder", 500, "Failed to create order")
       /\ unchanged
  ELSE /\ orders' = (orderId :> [client_id |-> clientId, guest_name |-> guestName,
                                 status |-> status, original_status |-> status,
                                 total_amount |-> finalTotalAmount,
                                 discount_amount |-> disc.discount,
                                 original_total |-> totalAmount]) @@ orders
       /\ order_items' = (orderId :> rows) @@ order_items
       /\ nextOrderId' = nextOrderId + 1
       /\ products' = DecrementStock(products, rows)
       /\ ledger' = ledger \o entries
       /\ last' = [Response("createOrder", 201, "Order created successfully")
                     EXCEPT !.orderId = orderId, !.status = status, !.items = items,
                            !.totalEur = disc.totalEur, !.totalMkd = disc.totalMkd]
       /\ UNCHANGED <<users, now>>

CreateOrderStep ==
  Serving /\ UNCHANGED proc /\
  \E actor \in users \cap {1, 3}, owner \in OwnerChoices,
     status \in Statuses, items \in CreateItemLists, disc \in DiscountChoices :
    /\ (disc # NoDiscount \/ status = "completed" \/ owner.guestName # "")
         => items \in DiscountedItemLists
    /\ CreateOrder(actor, owner.clientId, owner.guestName, status, items, disc)

(***************************************************************************)
(* checkItemsChanged and calculateNetDebtChange (routes/orders.js)         *)
(***************************************************************************)
\* keys of the Map built from an item list
ItemIds(items) == {items[i].productId : i \in DOMAIN items}

\* Map.set in list order: the last item of a product id is the one kept
MapGet(items, productId) ==
  items[CHOOSE i \in DOMAIN items :
          /\ items[i].productId = productId
          /\ \A j \in DOMAIN items : j > i => items[j].productId # productId]

\* a comparison that always reports a change
AlwaysChanged(originalItems, newItems) == TRUE

checkItemsChanged(originalItems, newItems) ==
  IF Len(originalItems) # Len(newItems) THEN TRUE
  ELSE IF \E p \in ItemIds(originalItems) :
            \/ p \notin ItemIds(newItems)
            \/ MapGet(newItems, p).quantity # MapGet(originalItems, p).quantity
  THEN TRUE
  ELSE IF \E p \in ItemIds(newItems) : p \notin ItemIds(originalItems) THEN TRUE
  ELSE FALSE

RECURSIVE SumOver(_, _)
SumOver(S, f) ==
  IF S = {} THEN 0
  ELSE LET x == CHOOSE y \in S : TRUE IN f[x] + SumOver(S \ {x}, f)

addedItems(originalItems, newItems) == ItemIds(newItems) \ ItemIds(originalItems)

removedItems(originalItems, newItems) == ItemIds(originalItems) \ ItemIds(newItems)

quantityIncreases(originalItems, newItems) ==
  {p \in ItemIds(newItems) \cap ItemIds(originalItems) :
     MapGet(newItems, p).quantity > MapGet(originalItems, p).quantity}

quantityDecreases(originalItems, newItems) ==
  {p \in ItemIds(newItems) \cap ItemIds(originalItems) :
     MapGet(newItems, p).quantity < MapGet(originalItems, p).quantity}

\* eurNetChange / mkdNetChange: the accumulator of one currency
NetChange(prods, originalItems, newItems, currency) ==
  LET ids == ItemIds(originalItems) \cup ItemIds(newItems)
      mine(S) == {p \in S : CurrencyOfCategory(CategoryOf(prods, p)) = currency}
      new(p) == MapGet(newItems, p)
      old(p) == MapGet(originalItems, p)
      added == [p \in ids |-> new(p).quantity * new(p).price]
      removed == [p \in ids |-> old(p).quantity * old(p).price]
      increase == [p \in ids |-> (new(p).quantity - old(p).quantity) * new(p).price]
      decrease == [p \in ids |-> (old(p).quantity - new(p).quantity) * old(p).price]
  IN   SumOver(mine(addedItems(originalItems, newItems)), added)
     - SumOver(mine(removedItems(originalItems, newItems)), removed)
     + SumOver(mine(quantityIncreases(originalItems, newItems)), increase)
     - SumOver(mine(quantityDecreases(originalItems, newItems)), decrease)

\* noteText, without the product names and the order number
NoteText(originalItems, newItems) ==
  LET a == addedItems(originalItems, newItems) # {}
      r == removedItems(originalItems, newItems) # {}
      q == \/ quantityIncreases(originalItems, newItems) # {}
           \/ quantityDecreases(originalItems, newItems) # {}
  IN CASE a /\ ~r /\ ~q -> "Items increased in order. Added"
       [] r /\ ~a /\ ~q -> "Items reduced from order. Removed"
       [] q /\ ~a /\ ~r -> "Items quantity updated in order. Quantity changes"
       [] a /\ r /\ ~q -> "Items increased and reduced in order. Increased. Reduced"
       [] a /\ q /\ ~r -> "Items increased and quantity updated in order. Increased. Quantity changes"
       [] r /\ q /\ ~a -> "Items reduced and quantity updated in order. Reduced. Quantity changes"
       [] a /\ r /\ q ->
            "Items increased and reduced and quantity updated in order. Increased. Reduced. Quantity changes"
       [] OTHER -> "Order items updated"

calculateNetDebtChange(prods, originalItems, newItems) ==
  [eurNetChange |-> NetChange(prods, originalItems, newItems, "EUR"),
   mkdNetChange |-> NetChange(prods, originalItems, newItems, "MKD"),
   noteText |-> NoteText(originalItems, newItems)]

(***************************************************************************)
(* PUT /orders/:id  (admin only)                                           *)
(***************************************************************************)
\* the tables a transaction reads and writes
Database == [products |-> products, orders |-> orders,
             order_items |-> order_items, ledger |-> ledger]

\* a restore loop that stops after the first row
RestoreFirstRowOnly(prods, rows) ==
  IF rows = <<>> THEN prods
  ELSE [prods EXCEPT ![rows[1].product_id].stock_quantity = @ + rows[1].quantity]

\* UPDATE products SET stock_quantity = stock_quantity + quantity, row by row
RECURSIVE RestoreStock(_, _)
RestoreStock(prods, rows) ==
  IF rows = <<>> THEN prods
  ELSE LET r == Head(rows)
       IN RestoreStock(
            [prods EXCEPT ![r.product_id].stock_quantity = @ + r.quantity], Tail(rows))

\* a loop that stops after the first new item
InsertFirstItemOnly(prods, rows, items) ==
  LET item == Head(items)
  IN IF items = <<>> THEN [ok |-> TRUE, error |-> "", products |-> prods, rows |-> rows]
     ELSE IF item.productId \notin DOMAIN prods
     THEN [ok |-> FALSE, error |-> "Product not found", products |-> prods, rows |-> rows]
     ELSE IF prods[item.productId].stock_quantity < item.quantity
     THEN [ok |-> FALSE, error |-> "Insufficient stock for product",
           products |-> prods, rows |-> rows]
     ELSE [ok |-> TRUE, error |-> "",
           products |-> [prods EXCEPT ![item.productId].stock_quantity = @ - item.quantity],
           rows |-> Append(rows, [product_id |-> item.productId,
                                  quantity |-> item.quantity, price |-> item.price])]

\* the loop over the new items: check the stock, reduce it, insert the row;
\* the first throw ends the loop
RECURSIVE InsertItems(_, _, _)
InsertItems(prods, rows, items) ==
  IF items = <<>> THEN [ok |-> TRUE, error |-> "", products |-> prods, rows |-> rows]
  ELSE LET item == Head(items)
       IN IF item.productId \notin DOMAIN prods
          THEN [ok |-> FALSE, error |-> "Product not found", products |-> prods, rows |-> rows]
          ELSE IF prods[item.productId].stock_quantity < item.quantity
          THEN [ok |-> FALSE, error |-> "Insufficient stock for product",
                products |-> prods, rows |-> rows]
          ELSE LET reduced == [prods EXCEPT ![item.productId].stock_quantity = @ - item.quantity]
               IN IF ~Storable(item.price)
                  THEN [ok |-> FALSE, error |-> "numeric field overflow",
                        products |-> reduced, rows |-> rows]
                  ELSE InsertItems(reduced,
                                   Append(rows, [product_id |-> item.productId,
                                                 quantity |-> item.quantity,
                                                 price |-> item.price]),
                                   Tail(items))

\* the two guarded inserts of the net change: a failed insert is caught, but
\* it aborts the transaction, so every later statement throws
NetChangeInserts(us, rows, clientId, net, actor, t) ==
  LET eurEntry == LedgerEntry(clientId, -net.eurNetChange, "EUR", net.noteText, actor, t)
      mkdEntry == LedgerEntry(clientId, -net.mkdNetChange, "MKD", net.noteText, actor, t)
      eurDue == net.eurNetChange # 0 /\ clientId # 0
      mkdDue == net.mkdNetChange # 0 /\ clientId # 0
      eurOk == ~eurDue \/ LedgerInsertOk(us, eurEntry)
      mkdOk == ~mkdDue \/ (eurOk /\ LedgerInsertOk(us, mkdEntry))
  IN [ok |-> eurOk /\ mkdOk,
      ledger |-> rows \o (IF eurDue /\ eurOk THEN <<eurEntry>> ELSE <<>>)
                      \o (IF mkdDue /\ eurOk /\ mkdOk THEN <<mkdEntry>> ELSE <<>>)]

\* finalTotal: SUM(quantity * price), less the preserved discount
\* a total that takes the discount off without a floor
TotalBelowZero(rows, preserveDiscount, originalDiscount) ==
  LET total == SumSeq([i \in DOMAIN rows |-> LineTotal(rows[i])])
  IN IF preserveDiscount /\ originalDiscount > 0 THEN total - originalDiscount ELSE total

FinalTotal(rows, preserveDiscount, originalDiscount) ==
  LET total == SumSeq([i \in DOMAIN rows |-> LineTotal(rows[i])])
  IN IF preserveDiscount /\ originalDiscount > 0
     THEN Max(0, total - originalDiscount)
     ELSE total

\* the statements between BEGIN and COMMIT, on the transaction's view of the
\* tables; ok is FALSE when a statement threw
UpdateOrderTransaction(db, us, orderId, req, actor, t) ==
  LET withStatus ==
        IF req.status # ""
        THEN [db EXCEPT !.orders[orderId].status = req.status]
        ELSE db
  IN
  IF ~req.hasItems
  THEN [ok |-> TRUE, error |-> "", itemsUpdated |-> FALSE, db |-> withStatus]
  ELSE IF ~checkItemsChanged(req.originalItems, req.items)
  THEN [ok |-> TRUE, error |-> "", itemsUpdated |-> FALSE, db |-> withStatus]
  ELSE
    LET currentItems == db.order_items[orderId]
        restored == RestoreStock(db.products, currentItems)
        clientId == db.orders[orderId].client_id
        inserted == InsertItems(restored, <<>>, req.items)
        net == calculateNetDebtChange(inserted.products, req.originalItems, req.items)
        logged == NetChangeInserts(us, db.ledger, clientId, net, actor, t)
        finalTotal == FinalTotal(inserted.rows, req.preserveDiscount, req.originalDiscount)
        afterItems == [withStatus EXCEPT !.products = inserted.products,
                                         !.order_items[orderId] = inserted.rows]
    IN
    IF ~inserted.ok
    THEN [ok |-> FALSE, error |-> inserted.error, itemsUpdated |-> FALSE, db |-> afterItems]
    ELSE IF ~logged.ok
    THEN \* the SELECT of the total is refused by the aborted transaction
         [ok |-> FALSE, error |-> "current transaction is aborted", itemsUpdated |-> FALSE,
          db |-> [afterItems EXCEPT !.ledger = logged.ledger]]
    ELSE IF ~Storable(finalTotal)
    THEN [ok |-> FALSE, error |-> "numeric field overflow", itemsUpdated |-> FALSE,
          db |-> [afterItems EXCEPT !.ledger = logged.ledger]]
    ELSE [ok |-> TRUE, error |-> "", itemsUpdated |-> TRUE,
          db |-> [afterItems EXCEPT !.ledger = logged.ledger,
                                    !.orders[orderId].total_amount = finalTotal]]

\* a handler that keeps what the failed transaction wrote
CommitAnyway(before, txn) == txn.db

\* COMMIT makes the transaction's view the tables; ROLLBACK keeps the old ones
EndTransaction(before, txn) == IF txn.ok THEN txn.db ELSE before

UpdateOrder(orderId, req) ==
  IF orderId \notin DOMAIN orders
  THEN /\ last' = Response("updateOrder", 404, "Order not found")
       /\ UNCHANGED <<users, products, orders, order_items, nextOrderId, ledger, now>>
  ELSE LET txn == UpdateOrderTransaction(Database, users, orderId, req, AdminId, now)
           after == EndTransaction(Database, txn)
       IN /\ products' = after.products
          /\ orders' = after.orders
          /\ order_items' = after.order_items
          /\ ledger' = after.ledger
          /\ last' = IF txn.ok
                     THEN [Response("updateOrder", 200, "Order updated successfully")
                             EXCEPT !.orderId = orderId, !.status = req.status,
                                    !.itemsUpdated = txn.itemsUpdated,
                                    !.hasItems = req.hasItems, !.items = req.items,
                                    !.originalItems = req.originalItems,
                                    !.preserveDiscount = req.preserveDiscount,
                                    !.originalDiscount = req.originalDiscount]
                     ELSE [Response("updateOrder", 500, "Failed to update order")
                             EXCEPT !.orderId = orderId, !.error = txn.error,
                                    !.status = req.status,
                                    !.hasItems = req.hasItems, !.items = req.items,
                                    !.originalItems = req.originalItems,
                                    !.preserveDiscount = req.preserveDiscount,
                                    !.originalDiscount = req.originalDiscount]
          /\ UNCHANGED <<users, nextOrderId, now>>

\* the order's rows as the admin page sends them back in originalItems
AsRequestItems(rows) ==
  [i \in DOMAIN rows |-> [productId |-> rows[i].product_id,
                          quantity |-> rows[i].quantity, price |-> rows[i].price]]

\* items of PUT /orders/:id carry the price the page shows, or an edited one
PricedItem(p, q, price) == [productId |-> p, quantity |-> q, price |-> price]
EditItemLists ==
  { <<PricedItem(1, 3, 10), PricedItem(3, 1, 20)>>,
    <<PricedItem(1, 2, 10), PricedItem(2, 1, 5)>>,
    <<PricedItem(2, 1, 5), PricedItem(1, 2, 10)>>,
    <<PricedItem(4, 1, 100)>>, <<PricedItem(1, 1, 12)>>,
    <<PricedItem(1, 2, 10), PricedItem(1, 2, 10)>>,
    <<PricedItem(1, 1, 10), PricedItem(6, 1, 1)>>,
    <<PricedItem(1, 2, 50000000)>>,
    <<PricedItem(5, 1, 7)>> }

\* originalItems: the stored rows, nothing, or the new items themselves
OriginalItemsChoices(rows, items) == {AsRequestItems(rows), <<>>, items}

KeepNoDiscount == [preserveDiscount |-> FALSE, originalDiscount |-> 0]
DiscountRequests == {KeepNoDiscount, [preserveDiscount |-> TRUE, originalDiscount |-> 30]}

\* the item lists that are also sent together with a status or a discount:
\* one that can be stored, one that names a missing product, and one that
\* lists the items of a created order in another order and whose total is
\* below the discount
StatusEditLists ==
  { <<PricedItem(1, 3, 10), PricedItem(3, 1, 20)>>,
    <<PricedItem(1, 1, 10), PricedItem(6, 1, 1)>>,
    <<PricedItem(2, 1, 5), PricedItem(1, 2, 10)>> }

\* the body of PUT /orders/:id
UpdateRequest(status, hasItems, items, originalItems, d) ==
  [status |-> status, hasItems |-> hasItems, items |-> items,
   originalItems |-> originalItems, preserveDiscount |-> d.preserveDiscount,
   originalDiscount |-> d.originalDiscount]

UpdateOrderStep ==
  Serving /\ UNCHANGED proc /\
  \E orderId \in 1..nextOrderId :
    \/ \E status \in Statuses \cup {""} :
         UpdateOrder(orderId, UpdateRequest(status, FALSE, <<>>, <<>>, KeepNoDiscount))
    \/ /\ orderId \in DOMAIN orders
       /\ \E status \in Statuses \cup {""}, items \in EditItemLists, d \in DiscountRequests :
            \E originalItems \in OriginalItemsChoices(order_items[orderId], items) :
              /\ (status # "" \/ d # KeepNoDiscount)
                   => (items \in StatusEditLists /\ originalItems # <<>>)
              /\ d # KeepNoDiscount => status = ""
              /\ UpdateOrder(orderId, UpdateRequest(status, TRUE, items, originalItems, d))

(***************************************************************************)
(* PUT /orders/:id/status  (admin only; the first handler registered)      *)
(***************************************************************************)
\* a status update that settles the order's total when it completes it
UpdateOrderStatusSettling(orderId, status) ==
  IF orderId \notin DOMAIN orders
  THEN /\ last' = Response("updateOrderStatus", 404, "Order not found")
       /\ UNCHANGED <<users, products, orders, order_items, nextOrderId, ledger, now>>
  ELSE /\ orders' = [orders EXCEPT ![orderId].status = status]
       /\ ledger' = IF status = "completed"
                    THEN Append(ledger, LedgerEntry(orders[orderId].client_id,
                                                    orders[orderId].total_amount, "EUR",
                                                    "Order completed", AdminId, now))
                    ELSE ledger
       /\ last' = [Response("updateOrderStatus", 200, "Order status updated successfully")
                     EXCEPT !.orderId = orderId, !.status = status]
       /\ UNCHANGED <<users, products, order_items, nextOrderId, now>>

UpdateOrderStatus(orderId, status) ==
  IF orderId \notin DOMAIN orders
  THEN /\ last' = Response("updateOrderStatus", 404, "Order not found")
       /\ UNCHANGED <<users, products, orders, order_items, nextOrderId, ledger, now>>
  ELSE /\ orders' = [orders EXCEPT ![orderId].status = status]
       /\ last' = [Response("updateOrderStatus", 200, "Order status updated successfully")
                     EXCEPT !.orderId = orderId, !.status = status]
       /\ UNCHANGED <<users, products, order_items, nextOrderId, ledger, now>>

UpdateOrderStatusStep ==
  Serving /\ UNCHANGED proc /\
  \E orderId \in 1..nextOrderId, status \in Statuses : UpdateOrderStatus(orderId, status)

(***************************************************************************)
(* DELETE /orders/:id  (admin only)                                        *)
(***************************************************************************)
\* a table without the row of key k
Without(table, k) == [j \in DOMAIN table \ {k} |-> table[j]]

\* a deletion that also appends an entry taking the order's total back
DeleteOrderWithReversal(orderId) ==
  IF orderId \notin DOMAIN orders
  THEN /\ last' = Response("deleteOrder", 404, "Order not found")
       /\ UNCHANGED <<users, products, orders, order_items, nextOrderId, ledger, now>>
  ELSE /\ products' = RestoreStock(products, order_items[orderId])
       /\ order_items' = Without(order_items, orderId)
       /\ orders' = Without(orders, orderId)
       /\ ledger' = Append(ledger, LedgerEntry(orders[orderId].client_id,
                                               orders[orderId].total_amount, "EUR",
                                               "Order deleted", AdminId, now))
       /\ last' = [Response("deleteOrder", 200, "Order deleted successfully")
                     EXCEPT !.orderId = orderId,
                            !.itemsRestored = Len(order_items[orderId])]
       /\ UNCHANGED <<users, nextOrderId, now>>

DeleteOrder(orderId) ==
  IF orderId \notin DOMAIN orders
  THEN /\ last' = Response("deleteOrder", 404, "Order not found")
       /\ UNCHANGED <<users, products, orders, order_items, nextOrderId, ledger, now>>
  ELSE /\ products' = RestoreStock(products, order_items[orderId])
       /\ order_items' = Without(order_items, orderId)
       /\ orders' = Without(orders, orderId)
       /\ last' = [Response("deleteOrder", 200, "Order deleted successfully")
                     EXCEPT !.orderId = orderId,
                            !.itemsRestored = Len(order_items[orderId])]
       /\ UNCHANGED <<users, nextOrderId, ledger, now>>

DeleteOrderStep ==
  Serving /\ UNCHANGED proc /\ \E orderId \in 1..nextOrderId : DeleteOrder(orderId)

(***************************************************************************)
(* DELETE /users/:id  (admin only)                                         *)
(***************************************************************************)
RECURSIVE SelectSeq2(_, _)
SelectSeq2(s, keep) ==
  IF s = <<>> THEN <<>>
  ELSE IF Head(s) \in keep THEN <<Head(s)>> \o SelectSeq2(Tail(s), keep)
  ELSE SelectSeq2(Tail(s), keep)

\* a cascade that empties the table
CascadeWholeTable(rows, userId) == <<>>

\* ON DELETE CASCADE of user_debt_adjustments.user_id and .created_by
CascadeLedger(rows, userId) ==
  SelectSeq2(rows, {e \in {rows[i] : i \in DOMAIN rows} :
                      e.user_id # userId /\ e.created_by # userId})

\* a table without the CHECK
NoCheckOnOrders(ords, userId) == FALSE

\* ON DELETE SET NULL of orders.client_id meets
\* CHECK (client_id IS NOT NULL OR guest_name IS NOT NULL)
SetNullViolatesCheck(ords, userId) ==
  \E o \in DOMAIN ords : ords[o].client_id = userId /\ ords[o].guest_name = ""

\* a count that sees no order
CountsNoOrders(ords, userId) == 0

\* SELECT COUNT(*) as unpaid_count FROM orders
\* WHERE client_id = $1 AND status != 'completed'
unpaid_count(ords, userId) ==
  Cardinality({o \in DOMAIN ords :
                 ords[o].client_id = userId /\ ords[o].status # "completed"})

DeleteUser(userId) ==
  LET unchanged == UNCHANGED <<users, products, orders, order_items, nextOrderId, ledger, now>>
      unpaidOrders == unpaid_count(orders, userId)
  IN
  IF userId \notin users
  THEN /\ last' = Response("deleteUser", 404, "User not found")
       /\ unchanged
  ELSE IF Role[userId] = "admin"
  THEN /\ last' = [Response("deleteUser", 403, "Cannot delete admin users")
                     EXCEPT !.userId = userId]
       /\ unchanged
  ELSE IF unpaidOrders > 0
  THEN /\ last' = [Response("deleteUser", 400, "Cannot delete user with unpaid orders")
                     EXCEPT !.userId = userId]
       /\ unchanged
  ELSE IF SetNullViolatesCheck(orders, userId)
  THEN /\ last' = [Response("deleteUser", 500, "Failed to delete user")
                     EXCEPT !.userId = userId]
       /\ unchanged
  ELSE /\ users' = users \ {userId}
       /\ orders' = [o \in DOMAIN orders |->
                       IF orders[o].client_id = userId
                       THEN [orders[o] EXCEPT !.client_id = 0] ELSE orders[o]]
       /\ ledger' = CascadeLedger(ledger, userId)
       /\ last' = [Response("deleteUser", 200, "User deleted successfully")
                     EXCEPT !.userId = userId]
       /\ UNCHANGED <<products, order_items, nextOrderId, now>>

DeleteUserStep ==
  Serving /\ UNCHANGED proc /\ \E userId \in UserIds : DeleteUser(userId)

(***************************************************************************)
(* PUT /users/:id/debt  (admin only)                                       *)
(***************************************************************************)
\* debt, currency (optional) and notes of the request body
DebtRequests ==
  { [debt |-> 40, currency |-> "EUR", notes |-> "EUR debt reduced by"],
    [debt |-> -15, currency |-> "MKD", notes |-> "MKD debt increased by"],
    [debt |-> 40, currency |-> "NULL", notes |-> ""],
    [debt |-> DecimalLimit, currency |-> "EUR", notes |-> ""] }

UpdateDebt(userId, debt, currency, notes) ==
  LET entry == LedgerEntry(userId, debt, currency, notes, AdminId, now)
  IN
  IF userId \notin users
  THEN /\ last' = Response("updateDebt", 404, "User not found")
       /\ UNCHANGED <<users, products, orders, order_items, nextOrderId, ledger, now>>
  ELSE /\ IF LedgerInsertOk(users, entry)
          THEN ledger' = Append(ledger, entry)
          ELSE \* the insert error is caught and only logged
               ledger' = ledger
       /\ last' = [Response("updateDebt", 200, "Debt updated successfully")
                     EXCEPT !.userId = userId, !.debt = debt, !.currency = currency]
       /\ UNCHANGED <<users, products, orders, order_items, nextOrderId, now>>

UpdateDebtStep ==
  Serving /\ UNCHANGED proc /\
  \E userId \in UserIds, r \in DebtRequests :
    UpdateDebt(userId, r.debt, r.currency, r.notes)

(***************************************************************************)
(* DELETE /users/debt-logs/cleanup  (admin only)                           *)
(***************************************************************************)
CleanupDebtLogs ==
  Serving /\ UNCHANGED proc /\
  LET old == {e \in {ledger[i] : i \in DOMAIN ledger} :
                e.adjustment_type = "manual_reduction" /\ e.created_at < now - CleanupAge}
      kept == {ledger[i] : i \in DOMAIN ledger} \ old
  IN /\ ledger' = SelectSeq2(ledger, kept)
     /\ last' = Response("cleanupDebtLogs", 200, "Debt logs cleanup completed")
     /\ UNCHANGED <<users, products, orders, order_items, nextOrderId, now>>

(***************************************************************************)
(* GET /users/:id/profile: the debt of the financial summary               *)
(***************************************************************************)
\* a GROUP BY that merges all currencies into one group
SumsOfOneGroup(rows, userId) ==
  LET mine == {i \in DOMAIN rows : rows[i].user_id = userId}
      total == SumOver(mine, [i \in DOMAIN rows |-> rows[i].adjustment_amount])
  IN [k \in {rows[i].currency : i \in mine} |-> total]

\* SELECT currency, COALESCE(SUM(adjustment_amount), 0) AS sum
\* FROM user_debt_adjustments WHERE user_id = $1 GROUP BY currency
sumsResult(rows, userId) ==
  LET mine == {i \in DOMAIN rows : rows[i].user_id = userId}
  IN [k \in {rows[i].currency : i \in mine} |->
        SumOver({i \in mine : rows[i].currency = k},
                [i \in DOMAIN rows |-> rows[i].adjustment_amount])]

\* eurSum / mkdSum stay 0 when the result has no row of the currency
eurSum(rows, userId) ==
  LET sums == sumsResult(rows, userId)
  IN IF "EUR" \in DOMAIN sums THEN sums["EUR"] ELSE 0

mkdSum(rows, userId) ==
  LET sums == sumsResult(rows, userId)
  IN IF "MKD" \in DOMAIN sums THEN sums["MKD"] ELSE 0

eurDebt(rows, userId) == -eurSum(rows, userId)

mkdDebt(rows, userId) == -mkdSum(rows, userId)

(***************************************************************************)
(* GET /orders/:id/invoice: the debt columns joined to the order and the   *)
(* debt lines printed on the invoice.  The later "direct debt query" is    *)
(* keyed on order.client_id, a column the order query does not select, so  *)
(* the joined values are the ones printed.                                 *)
(***************************************************************************)
ABS(n) == IF n < 0 THEN -n ELSE n

\* COALESCE(k_debt.total_k_debt, 0): ABS(SUM(adjustment_amount)) over the
\* rows of the order's client in currency k, 0 without such rows or client
total_debt(rows, clientId, k) ==
  LET mine == {i \in DOMAIN rows : rows[i].user_id = clientId /\ rows[i].currency = k}
  IN IF clientId = 0 \/ mine = {} THEN 0
     ELSE ABS(SumOver(mine, [i \in DOMAIN rows |-> rows[i].adjustment_amount]))

client_eur_debt(ords, rows, orderId) == total_debt(rows, ords[orderId].client_id, "EUR")

client_mkd_debt(ords, rows, orderId) == total_debt(rows, ords[orderId].client_id, "MKD")

\* the invoice prints a debt line of a currency for a client order whose
\* joined debt of that currency is positive
PrintsEurDebt(ords, rows, orderId) ==
  ords[orderId].client_id # 0 /\ client_eur_debt(ords, rows, orderId) > 0

PrintsMkdDebt(ords, rows, orderId) ==
  ords[orderId].client_id # 0 /\ client_mkd_debt(ords, rows, orderId) > 0

(***************************************************************************)
(* GET /users/debt-logs: the debt before and after each listed entry.      *)
(* Every ledger row has adjustment_type 'manual_reduction', so every row   *)
(* is listed.  The query reads the rows created more than a second before  *)
(* the entry; the clock of this module counts months, so these are the     *)
(* rows with a smaller created_at.                                         *)
(***************************************************************************)
\* String.prototype.includes
includes(text, word) ==
  \E i \in 1..(Len(text) - Len(word) + 1) : SubSeq(text, i, i + Len(word) - 1) = word

\* Math.abs(SUM(adjustment_amount)) over the earlier rows of the entry's
\* user and currency; a NULL currency matches no row
debtBefore(rows, e) ==
  LET earlier == {j \in DOMAIN rows :
                    /\ rows[j].user_id = rows[e].user_id
                    /\ rows[e].currency # "NULL"
                    /\ rows[j].currency = rows[e].currency
                    /\ rows[j].created_at < rows[e].created_at}
  IN ABS(SumOver(earlier, [j \in DOMAIN rows |-> rows[j].adjustment_amount]))

\* the direction is read from the notes; without a known word the signed
\* amount is added
debtAfter(rows, e) ==
  LET notes == rows[e].notes
      rawAdjustmentAmount == rows[e].adjustment_amount
      adjustmentAmount == ABS(rawAdjustmentAmount)
  IN IF notes # "" /\ (\/ includes(notes, "increased") \/ includes(notes, "Debt increase")
                       \/ includes(notes, "Added") \/ includes(notes, "Increased"))
     THEN debtBefore(rows, e) + adjustmentAmount
     ELSE IF notes # "" /\ (\/ includes(notes, "reduced") \/ includes(notes, "removed")
                            \/ includes(notes, "Reduced"))
     THEN debtBefore(rows, e) - adjustmentAmount
     ELSE debtBefore(rows, e) + rawAdjustmentAmount

\* the fields of the response
debt_before(rows, e) == ABS(debtBefore(rows, e))

debt_after(rows, e) == ABS(debtAfter(rows, e))

(***************************************************************************)
(* Time passes between requests, in months.  Only the age of ledger rows   *)
(* is ever read, so the clock is advanced once there is a row.             *)
(***************************************************************************)
Durations == {CleanupAge + 1}

Tick ==
  \E d \in Durations :
    /\ Serving
    /\ ledger # <<>>
    /\ now + d <= MaxTime
    /\ now' = now + d
    /\ UNCHANGED <<users, products, orders, order_items, nextOrderId, ledger, last, proc>>

Next ==
  \/ CreateOrderStep
  \/ UpdateOrderStep
  \/ UpdateOrderStatusStep
  \/ DeleteOrderStep
  \/ DeleteUserStep
  \/ UpdateDebtStep
  \/ CleanupDebtLogs
  \/ Tick

Spec == Init /\ [][Next]_vars

(***************************************************************************)
(* Properties.                                                             *)
(***************************************************************************)
\* this step served a request of handler op with HTTP status code
Served(op, code) ==
  last'.seq = last.seq + 1 /\ last'.op = op /\ last'.code = code

\* every ledger row of before the step is still there, unchanged and in place
LedgerKept ==
  Len(ledger') >= Len(ledger) /\ SubSeq(ledger', 1, Len(ledger)) = ledger

\* units of product p in the rows of one order
UnitsIn(rows, p) ==
  SumOver({i \in DOMAIN rows : rows[i].product_id = p},
          [i \in DOMAIN rows |-> rows[i].quantity])

\* C6: deleting an order adds to every product's stock exactly the quantity
\* of each stored item of that order, leaves every other product's stock
\* alone, and removes the order and all its items.
C6_DeleteRestoresStock ==
  [][Served("deleteOrder", 200) =>
       LET id == last'.orderId
       IN /\ id \in DOMAIN orders
          /\ \A p \in ProductIds :
               products'[p] =
                 [products[p] EXCEPT !.stock_quantity = @ + UnitsIn(order_items[id], p)]
          /\ id \notin DOMAIN orders'
          /\ id \notin DOMAIN order_items'
          /\ \A o \in DOMAIN orders \ {id} :
               o \in DOMAIN orders' /\ orders'[o] = orders[o]
                 /\ order_items'[o] = order_items[o]]_vars

\* an order with two items of distinct products has been deleted
C6_Witness ==
  /\ last.op = "deleteOrder" /\ last.code = 200 /\ last.itemsRestored = 2
  /\ products = SeedProducts

\* the debt the financial summary of client c shows in currency k
DebtIn(rows, c, k) == IF k = "EUR" THEN eurDebt(rows, c) ELSE mkdDebt(rows, c)

DebtShown(c, k) == DebtIn(ledger, c, k)

\* the amounts of the ledger entries of client c in currency k, in ledger order
AmountsOf(rows, c, k) ==
  [i \in DOMAIN rows |->
     IF rows[i].user_id = c /\ rows[i].currency = k THEN rows[i].adjustment_amount ELSE 0]

\* C1: in every reachable state, for every client c and currency k in
\* {EUR, MKD}, the debt the financial summary derives for (c, k) is -1 times
\* the sum of the amounts of all ledger entries of c in k.
C1_DebtIsNegatedLedgerSum ==
  \A c \in UserIds : \A k \in Currencies :
    DebtShown(c, k) = -SumSeq(AmountsOf(ledger, c, k))

\* client 2 owes in both currencies after an order and a manual increase
C1_Witness ==
  /\ Len(ledger) = 3
  /\ DebtShown(2, "EUR") = 100
  /\ DebtShown(2, "MKD") = 25

\* the request items name the same products with the same quantities as the
\* stored rows, in any order
SameItemSet(items, rows) ==
  /\ Len(items) = Len(rows)
  /\ {<<items[i].productId, items[i].quantity>> : i \in DOMAIN items}
       = {<<rows[i].product_id, rows[i].quantity>> : i \in DOMAIN rows}

\* the stock of every product is the same before and after the step
StockUnchanged ==
  \A p \in ProductIds : products'[p].stock_quantity = products[p].stock_quantity

\* C2: an edit (PUT /orders/:id with items) whose item set has the same
\* product ids and quantities as the order's stored items, in any order,
\* appends no ledger entry and changes no product's stock.
C2_SameItemsEditIsNoop ==
  [][(/\ Served("updateOrder", 200)
      /\ last'.hasItems
      /\ SameItemSet(last'.items, order_items[last'.orderId]))
       => (ledger' = ledger /\ StockUnchanged)]_vars

\* units of product p held by the stored items of all orders
Allocated(p) ==
  SumOver(DOMAIN orders, [o \in DOMAIN orders |-> UnitsIn(order_items[o], p)])

\* C3: after any sequence of successful or failed creations, item edits and
\* deletions, for every product the stock removed from inventory (initial
\* stock minus current stock) equals the quantity of that product over the
\* stored items of all orders that exist.
C3_StockConservation ==
  \A p \in ProductIds : InitStock[p] - products[p].stock_quantity = Allocated(p)

\* an edit has replaced the items of an order and taken the last units of A
C3_Witness ==
  /\ last.op = "updateOrder" /\ last.code = 200 /\ last.itemsUpdated
  /\ products[1].stock_quantity = 0
  /\ Allocated(1) = 3

\* no product is named twice in the rows
DistinctProducts(rows) ==
  \A i, j \in DOMAIN rows : i # j => rows[i].product_id # rows[j].product_id

\* quantity and price of product p in rows of distinct products (0 when absent)
QuantityIn(rows, p) ==
  IF \E i \in DOMAIN rows : rows[i].product_id = p
  THEN rows[CHOOSE i \in DOMAIN rows : rows[i].product_id = p].quantity
  ELSE 0

PriceIn(rows, p) ==
  IF \E i \in DOMAIN rows : rows[i].product_id = p
  THEN rows[CHOOSE i \in DOMAIN rows : rows[i].product_id = p].price
  ELSE 0

\* what product p adds to the net change when old rows are replaced by new
\* rows: an added product and a grown quantity count at the new price, a
\* removed product and a shrunk quantity count negatively at the old price
DeltaOf(old, new, p) ==
  LET qo == QuantityIn(old, p)
      qn == QuantityIn(new, p)
  IN IF qo = 0 THEN qn * PriceIn(new, p)
     ELSE IF qn = 0 THEN -(qo * PriceIn(old, p))
     ELSE IF qn > qo THEN (qn - qo) * PriceIn(new, p)
     ELSE -((qo - qn) * PriceIn(old, p))

\* the net change of currency k between the old and the new rows of an order
NetOf(old, new, k) ==
  SumOver({p \in ProductIds : CurrencyOfCategory(Category[p]) = k},
          [p \in ProductIds |-> DeltaOf(old, new, p)])

\* positions of the ledger rows of currency k appended by the step
AppendedIn(k) == {i \in (Len(ledger) + 1)..Len(ledger') : ledger'[i].currency = k}

\* C4: when the items of a registered client's order are replaced, the net
\* change of a currency is quantity x price over added products plus
\* quantity increase x price over grown products, minus quantity x price
\* over removed products and quantity decrease x price over shrunk
\* products, over the products of that currency (smartphones EUR, all else
\* MKD); exactly one entry of amount -(net change) is appended for a
\* currency whose net change is not zero, and none for the other currency.
C4_NetChangeEntries ==
  [][(/\ Served("updateOrder", 200)
      /\ last'.itemsUpdated
      /\ orders[last'.orderId].client_id # 0
      /\ DistinctProducts(order_items[last'.orderId])
      /\ DistinctProducts(order_items'[last'.orderId]))
       => LET id == last'.orderId
              net(k) == NetOf(order_items[id], order_items'[id], k)
          IN /\ LedgerKept
             /\ \A i \in (Len(ledger) + 1)..Len(ledger') : ledger'[i].currency \in Currencies
             /\ \A k \in Currencies :
                  IF net(k) = 0 THEN AppendedIn(k) = {}
                  ELSE /\ Cardinality(AppendedIn(k)) = 1
                       /\ \A i \in AppendedIn(k) :
                            /\ ledger'[i].user_id = orders[id].client_id
                            /\ ledger'[i].adjustment_amount = -net(k)]_vars

\* the item total of currency k over the rows of an order
TotalOf(rows, k) ==
  SumSeq([i \in DOMAIN rows |->
            IF CurrencyOfCategory(Category[rows[i].product_id]) = k
            THEN rows[i].quantity * rows[i].price ELSE 0])

\* the ledger holds a debt increase of a pending order of client c in currency k
OwesForOrder(c, k) ==
  \E i \in DOMAIN ledger :
    /\ ledger[i].user_id = c /\ ledger[i].currency = k
    /\ ledger[i].notes = "Debt increase from pending order"

\* C5: creating a pending order for a registered client with no discounted
\* totals appends, for each currency whose item total T is positive, exactly
\* one entry {client, currency, -T} and nothing else; a later manual
\* reduction of R in that currency appends exactly one entry {client,
\* currency, +R}, so that the balance drops by R (from T to T - R).
C5_PendingOrderThenReduction ==
  [][/\ (/\ Served("createOrder", 201)
          /\ orders'[last'.orderId].status = "pending"
          /\ orders'[last'.orderId].client_id # 0
          /\ last'.totalEur = 0 /\ last'.totalMkd = 0)
           => LET id == last'.orderId
              IN /\ LedgerKept
                 /\ \A i \in (Len(ledger) + 1)..Len(ledger') :
                      ledger'[i].currency \in Currencies
                 /\ \A k \in Currencies :
                      IF TotalOf(order_items'[id], k) > 0
                      THEN /\ Cardinality(AppendedIn(k)) = 1
                           /\ \A i \in AppendedIn(k) :
                                /\ ledger'[i].user_id = orders'[id].client_id
                                /\ ledger'[i].adjustment_amount = -TotalOf(order_items'[id], k)
                      ELSE AppendedIn(k) = {}
     /\ (/\ Served("updateDebt", 200)
          /\ last'.debt > 0
          /\ last'.currency \in Currencies
          /\ OwesForOrder(last'.userId, last'.currency))
           => /\ Len(ledger') = Len(ledger) + 1
              /\ LedgerKept
              /\ ledger'[Len(ledger')].user_id = last'.userId
              /\ ledger'[Len(ledger')].currency = last'.currency
              /\ ledger'[Len(ledger')].adjustment_amount = last'.debt
              /\ DebtIn(ledger', last'.userId, last'.currency)
                   = DebtShown(last'.userId, last'.currency) - last'.debt]_vars

\* this step served a request of handler op, whatever the answer
Handled(op) == last'.seq = last.seq + 1 /\ last'.op = op

\* C7: order creation appends a ledger entry only when the order is created
\* in status pending for a registered (non-guest) client; a guest order and
\* an order created with status completed append nothing.
C7_CreationEntryOnlyForPendingClient ==
  [][Handled("createOrder") =>
       /\ LedgerKept
       /\ (ledger' # ledger =>
             /\ last'.code = 201
             /\ orders'[last'.orderId].status = "pending"
             /\ orders'[last'.orderId].guest_name = ""
             /\ orders'[last'.orderId].client_id \in users
             /\ \A i \in (Len(ledger) + 1)..Len(ledger') :
                  ledger'[i].user_id = orders'[last'.orderId].client_id)]_vars

\* a completed order of a client was created after a pending one: only the
\* pending order has entries
C7_Witness ==
  /\ last.op = "createOrder" /\ last.code = 201 /\ last.orderId = 2
  /\ orders[2].status = "completed" /\ orders[2].client_id = 2
  /\ orders[1].status = "pending" /\ orders[1].client_id = 2
  /\ Len(ledger) = 1

C9_FailedEditChangesNothing ==
  [][(Handled("updateOrder") /\ last'.code # 200)
       => UNCHANGED <<users, products, orders, order_items, nextOrderId, ledger>>]_vars

\* an edit was refused after its ledger insert had failed
C9_Witness ==
  /\ last.op = "updateOrder" /\ last.code = 500
  /\ last.error = "current transaction is aborted"
  /\ last.orderId \in DOMAIN orders

\* a requested item names a missing product, a disabled product or more
\* units than the product has in stock
Unavailable(item) ==
  \/ item.productId \notin DOMAIN products
  \/ products[item.productId].stock_status = "disabled"
  \/ products[item.productId].stock_quantity < item.quantity

\* C10: order creation rejects the whole order if any single requested item
\* names a missing product, a disabled product or a quantity above the
\* product's stock; a rejection creates no order, no order item and no
\* ledger entry and changes no product's stock.
C10_CreationRejectsInvalidItems ==
  [][Handled("createOrder") =>
       /\ (\E i \in DOMAIN last'.items : Unavailable(last'.items[i])) => last'.code # 201
       /\ last'.code # 201
            => UNCHANGED <<users, products, orders, order_items, nextOrderId, ledger>>]_vars

\* an order was rejected for its second item, a disabled product, after
\* another order had been stored
C10_Witness ==
  /\ last.op = "createOrder" /\ last.code = 400 /\ last.message = "not available"
  /\ Len(last.items) = 2
  /\ DOMAIN orders = {1}
  /\ C3_StockConservation

\* units of product p named by the items of a request
RequestedUnits(items, p) ==
  SumOver({i \in DOMAIN items : items[i].productId = p},
          [i \in DOMAIN items |-> items[i].quantity])

\* the stock of product p once the stored items of order id are given back
StockAfterRestore(id, p) == products[p].stock_quantity + UnitsIn(order_items[id], p)

\* the step replaced the items of an order
ItemsReplaced == Served("updateOrder", 200) /\ last'.itemsUpdated

\* the step handled an edit with items for an order that exists
ItemEditHandled ==
  Handled("updateOrder") /\ last'.hasItems /\ last'.orderId \in DOMAIN orders

\* every product moves by its stored quantity minus its new quantity
StockMovesByDifference ==
  \A p \in ProductIds :
    products'[p].stock_quantity
      = StockAfterRestore(last'.orderId, p) - RequestedUnits(last'.items, p)

C12_OneEntryPerCurrency ==
  [][(Handled("updateOrder") /\ last'.orderId \in DOMAIN orders)
       => LET id == last'.orderId
          IN /\ LedgerKept
             /\ Len(ledger') - Len(ledger) <= 2
             /\ \A k \in Currencies :
                  /\ Cardinality(AppendedIn(k)) <= 1
                  /\ (/\ DistinctProducts(order_items[id])
                      /\ DistinctProducts(order_items'[id])
                      /\ NetOf(order_items[id], order_items'[id], k) = 0)
                       => AppendedIn(k) = {}]_vars

\* C13: every ledger entry in every reachable state has currency EUR or
\* MKD, whichever operation appended it (order creation, order edit,
\* manual adjustment).
C13_EveryEntryHasCurrency ==
  \A i \in DOMAIN ledger : ledger[i].currency \in Currencies

\* C14: the order status only moves from pending to completed: no status
\* update and no order edit takes a completed order back to pending.
C14_CompletedStaysCompleted ==
  [][\A id \in DOMAIN orders \cap DOMAIN orders' :
       orders[id].status = "completed" => orders'[id].status = "completed"]_vars

\* C15: whenever the manual debt adjustment reports success for an
\* existing client, exactly one ledger entry has been appended, with that
\* client, the submitted signed amount, the submitted currency and the
\* acting admin as creator; success is never reported while the ledger is
\* unchanged.
C15_SuccessMeansOneEntry ==
  [][(Served("updateDebt", 200) /\ last'.userId \in users)
       => /\ LedgerKept
          /\ Len(ledger') = Len(ledger) + 1
          /\ ledger'[Len(ledger')].user_id = last'.userId
          /\ ledger'[Len(ledger')].adjustment_amount = last'.debt
          /\ ledger'[Len(ledger')].currency = last'.currency
          /\ ledger'[Len(ledger')].created_by = AdminId]_vars

\* C16: a manual adjustment for an existing client is never rejected
\* because of the balance it would produce: it is accepted whether the
\* resulting balance is positive, zero or negative, and the balance derived
\* afterwards in the submitted currency is the signed value (the balance
\* before minus the submitted amount), never a clamped one.
C16_AcceptedWithSignedBalance ==
  [][(Handled("updateDebt") /\ last'.code # 404)
       => /\ last'.code = 200
          /\ last'.currency \in Currencies
               => DebtIn(ledger', last'.userId, last'.currency)
                    = DebtShown(last'.userId, last'.currency) - last'.debt]_vars

\* what the invoice of order id prints as the debt of currency k (0: no line)
InvoiceDebt(id, k) ==
  IF k = "EUR"
  THEN IF PrintsEurDebt(orders, ledger, id) THEN client_eur_debt(orders, ledger, id) ELSE 0
  ELSE IF PrintsMkdDebt(orders, ledger, id) THEN client_mkd_debt(orders, ledger, id) ELSE 0

\* C17: the debt the invoice shows for an order's client in each currency
\* equals the derived balance of that client and currency (the negated
\* ledger sum), and no debt is shown for a currency in which the client
\* has zero balance or credit.
C17_InvoiceShowsBalance ==
  \A id \in DOMAIN orders : \A k \in Currencies :
    orders[id].client_id # 0
      => InvoiceDebt(id, k) = Max(0, DebtShown(orders[id].client_id, k))

\* user u is the client of an order that is not completed
OwnsUnpaidOrder(u) ==
  \E o \in DOMAIN orders : orders[o].client_id = u /\ orders[o].status # "completed"

\* C18: deleting a user is rejected, with users, orders and ledger left
\* unchanged, when the user is an admin (403) or is a client with at least
\* one order whose status is not completed (400); hence no client is ever
\* removed while owning a pending order.
C18_DeleteUserRejected ==
  [][/\ (/\ Handled("deleteUser")
         /\ last'.userId \in users
         /\ (Role[last'.userId] = "admin" \/ OwnsUnpaidOrder(last'.userId)))
          => /\ last'.code = (IF Role[last'.userId] = "admin" THEN 403 ELSE 400)
             /\ users' = users /\ orders' = orders /\ ledger' = ledger
     /\ \A u \in users \ users' : ~OwnsUnpaidOrder(u)]_vars

\* the deletion of a client who owns a pending order has been refused
C18_Witness ==
  /\ last.op = "deleteUser" /\ last.code = 400
  /\ last.userId \in users
  /\ Role[last.userId] = "client"
  /\ \E o \in DOMAIN orders :
       orders[o].client_id = last.userId /\ orders[o].status = "pending"

\* two item lists of a request name the same products with the same
\* quantities, in any order
SameRequestItems(a, b) ==
  /\ Len(a) = Len(b)
  /\ ItemIds(a) = ItemIds(b)
  /\ \A p \in ItemIds(a) : RequestedUnits(a, p) = RequestedUnits(b, p)

\* C19: an edit whose item set equals the original item set of the request
\* and that also carries a status is a no-op for items: it succeeds, the
\* order's status becomes the requested one and nothing else of the order
\* changes (items and total included), and every product's stock and the
\* ledger are left unchanged.
C19_SameItemsWithStatus ==
  [][(/\ Handled("updateOrder")
      /\ last'.orderId \in DOMAIN orders
      /\ last'.hasItems
      /\ last'.status \in Statuses
      /\ SameRequestItems(last'.originalItems, last'.items))
       => /\ last'.code = 200
          /\ ~last'.itemsUpdated
          /\ orders' = [orders EXCEPT ![last'.orderId].status = last'.status]
          /\ order_items' = order_items
          /\ products' = products
          /\ ledger' = ledger]_vars

\* a pending order was completed by an edit that lists the order's items
\* in another order
C19_Witness ==
  /\ last.op = "updateOrder" /\ last.code = 200
  /\ last.hasItems /\ ~last.itemsUpdated
  /\ last.status = "completed"
  /\ last.items # <<>>
  /\ SameRequestItems(last.originalItems, last.items)
  /\ last.orderId \in DOMAIN orders
  /\ orders[last.orderId].status = "completed"
  /\ orders[last.orderId].original_status = "pending"
  /\ last.originalItems = AsRequestItems(order_items[last.orderId])
  /\ last.items # last.originalItems

\* the sum of quantity x price over the items of a request
RequestedTotal(items) ==
  SumSeq([i \in DOMAIN items |-> items[i].quantity * items[i].price])

\* C20: after a successful order item edit, the order's stored totalAmount
\* is the sum of quantity x price over the new items, or, when discount
\* preservation is requested with a positive original discount, that sum
\* minus the discount, never below zero.
C20_TotalAfterEdit ==
  [][ItemsReplaced
       => orders'[last'.orderId].total_amount
            = IF last'.preserveDiscount /\ last'.originalDiscount > 0
              THEN Max(0, RequestedTotal(last'.items) - last'.originalDiscount)
              ELSE RequestedTotal(last'.items)]_vars

\* an edit preserved a discount larger than the total of its new items,
\* and the order's total is zero
C20_Witness ==
  /\ last.op = "updateOrder" /\ last.code = 200 /\ last.itemsUpdated
  /\ last.preserveDiscount
  /\ last.originalDiscount > RequestedTotal(last.items)
  /\ RequestedTotal(last.items) > 0
  /\ orders[last.orderId].total_amount = 0

\* C23: every stored order has exactly one kind of owner in every reachable
\* state: a registered client (client_id set, no guest name) or a guest
\* name (client_id null); creation never stores both and no later
\* operation leaves an order with neither.
C23_ExactlyOneOwner ==
  \A o \in DOMAIN orders :
    \/ orders[o].client_id # 0 /\ orders[o].guest_name = ""
    \/ orders[o].client_id = 0 /\ orders[o].guest_name # ""

\* the deletion of a client who owns an order has failed and the order
\* still has its client
C23_Witness ==
  /\ last.op = "deleteUser" /\ last.code = 500
  /\ \E o \in DOMAIN orders :
       orders[o].client_id = last.userId /\ orders[o].guest_name = ""

\* C24: no product's stock_quantity is negative in any state reached by
\* order creations, edits and deletions served one after the other, also
\* when an item list names the same product more than once.
C24_StockNeverNegative ==
  \A p \in ProductIds : products[p].stock_quantity >= 0

\* C25: for every successful item edit of a registered client's order, the
\* change of the client's derived debt in each currency is the sum of
\* quantity x price over the order's stored items of that currency after
\* the edit minus the same sum before the edit, whatever original items
\* and prices the request supplies.
C25_DebtFollowsStoredItems ==
  [][(ItemsReplaced /\ orders[last'.orderId].client_id # 0)
       => LET id == last'.orderId
              c == orders[id].client_id
          IN \A k \in Currencies :
               DebtIn(ledger', c, k) - DebtShown(c, k)
                 = TotalOf(order_items'[id], k) - TotalOf(order_items[id], k)]_vars

\* C26: deleting an order appends no ledger entry and changes no existing
\* entry: every client's derived balance in both currencies is the same
\* after the deletion as before it, also when the deleted order was
\* pending and had produced a debt-increase entry at creation.
C26_DeleteOrderKeepsLedger ==
  [][Handled("deleteOrder")
       => /\ ledger' = ledger
          /\ \A c \in UserIds : \A k \in Currencies :
               DebtIn(ledger', c, k) = DebtShown(c, k)]_vars

\* the only order ever created, a pending one, has been deleted and its
\* client still owes what its creation recorded
C26_Witness ==
  /\ last.op = "deleteOrder" /\ last.code = 200
  /\ nextOrderId = 2 /\ DOMAIN orders = {}
  /\ \E i \in DOMAIN ledger :
       /\ ledger[i].notes = "Debt increase from pending order"
       /\ DebtShown(ledger[i].user_id, ledger[i].currency) = -ledger[i].adjustment_amount
       /\ ledger[i].adjustment_amount < 0

\* the step changed a status through the status endpoint, or through the
\* edit endpoint with a status and no items
StatusChanged ==
  \/ Served("updateOrderStatus", 200)
  \/ Served("updateOrder", 200) /\ ~last'.hasItems /\ last'.status \in Statuses

\* C27: changing an order's status changes only that order's status: it
\* appends no ledger entry, changes no product's stock, and leaves the
\* order's items, total and original status unchanged, so completing a
\* pending order does not reduce the client's debt.
C27_StatusChangeOnly ==
  [][StatusChanged
       => /\ orders' = [orders EXCEPT ![last'.orderId].status = last'.status]
          /\ order_items' = order_items
          /\ products' = products
          /\ ledger' = ledger
          /\ users' = users]_vars

\* a client's pending order has been completed through the status endpoint
\* and the client still owes what the creation recorded
C27_Witness ==
  /\ last.op = "updateOrderStatus" /\ last.code = 200 /\ last.status = "completed"
  /\ last.orderId \in DOMAIN orders
  /\ orders[last.orderId].status = "completed"
  /\ orders[last.orderId].original_status = "pending"
  /\ orders[last.orderId].client_id # 0
  /\ \E k \in Currencies : DebtShown(orders[last.orderId].client_id, k) > 0

\* C29: no order item is ever stored for a disabled product: order
\* creation and order item edit both reject an item set that contains a
\* product whose stock status is disabled.
C29_NoItemOfDisabledProduct ==
  \A o \in DOMAIN order_items : \A i \in DOMAIN order_items[o] :
    products[order_items[o][i].product_id].stock_status # "disabled"

\* the balance of the entry's client and currency just before entry e was
\* appended: the negated sum of the earlier entries of that pair
BalanceBefore(e) ==
  -SumOver({j \in DOMAIN ledger :
              /\ ledger[j].user_id = ledger[e].user_id
              /\ ledger[j].currency = ledger[e].currency
              /\ ledger[j].created_at < ledger[e].created_at},
           [j \in DOMAIN ledger |-> ledger[j].adjustment_amount])

\* C22: for every ledger entry E listed in the debt log, the reported debt
\* before E is the negated sum of the amounts of all entries of the same
\* client and currency created strictly before E.
C22_DebtBeforeIsBalance ==
  \A e \in DOMAIN ledger :
    ledger[e].currency \in Currencies => debt_before(ledger, e) = BalanceBefore(e)

\* C28: for every ledger entry the system writes with a note (pending-order
\* creation, order item edit, manual adjustment from the admin page), the
\* direction the debt log reads from the notes agrees with the sign of the
\* amount: the debt after is the debt before plus |amount| for a negative
\* amount and minus |amount| for a positive one (compared before the
\* response takes absolute values).
C28_NotesAgreeWithSign ==
  \A e \in DOMAIN ledger :
    (ledger[e].notes # "" /\ ledger[e].currency \in Currencies)
      => debtAfter(ledger, e)
           = IF ledger[e].adjustment_amount < 0
             THEN debtBefore(ledger, e) + ABS(ledger[e].adjustment_amount)
             ELSE debtBefore(ledger, e) - ABS(ledger[e].adjustment_amount)

(***************************************************************************)
(* POST /orders served for two requests at once.  The handler opens no     *)
(* transaction: every query is a statement of its own on the pool, so the  *)
(* statements of the two handlers interleave one by one.  Both requests    *)
(* are pending orders of the caller without a discount, with amounts that  *)
(* every column stores.                                                    *)
(***************************************************************************)
RaceCreateLists ==
  { <<Item(1, 2)>>, <<Item(1, 2), Item(3, 1)>>, <<Item(3, 1), Item(1, 1)>>, <<Item(4, 1)>> }

\* the request arrives: express-validator and the owner of the order
CreateBegin(self) ==
  /\ proc[self].pc = "idle"
  /\ \E actor \in users \cap {1, 3}, items \in RaceCreateLists :
       proc' = [proc EXCEPT ![self] =
                  [IdleProc EXCEPT !.pc = "validate", !.actor = actor,
                                   !.items = items, !.k = 1]]
  /\ UNCHANGED <<users, products, orders, order_items, nextOrderId, ledger, now, last>>

\* one turn of the validation loop: SELECT the product, check it, keep the row
CreateValidateItem(self) ==
  LET me == proc[self]
      item == me.items[me.k]
      err == ItemError(products, item)
      atEnd == me.k = Len(me.items)
  IN /\ me.pc = "validate"
     /\ proc' = [proc EXCEPT ![self] =
                   IF err # "ok"
                   THEN [me EXCEPT !.pc = "done", !.code = 400]
                   ELSE [me EXCEPT !.rows = me.rows \o ValidatedItems(products, <<item>>),
                                   !.k = IF atEnd THEN 1 ELSE me.k + 1,
                                   !.pc = IF atEnd THEN "insertOrder" ELSE "validate"]]
     /\ UNCHANGED <<users, products, orders, order_items, nextOrderId, ledger, now, last>>

\* INSERT INTO orders ... RETURNING id
CreateInsertOrder(self) ==
  LET me == proc[self]
      totalAmount == SumSeq([i \in DOMAIN me.rows |-> LineTotal(me.rows[i])])
  IN /\ me.pc = "insertOrder"
     /\ orders' = (nextOrderId :> [client_id |-> me.actor, guest_name |-> "",
                                   status |-> "pending", original_status |-> "pending",
                                   total_amount |-> totalAmount, discount_amount |-> 0,
                                   original_total |-> totalAmount]) @@ orders
     /\ order_items' = (nextOrderId :> <<>>) @@ order_items
     /\ nextOrderId' = nextOrderId + 1
     /\ proc' = [proc EXCEPT ![self] =
                   [me EXCEPT !.pc = "insertItem", !.orderId = nextOrderId, !.k = 1]]
     /\ UNCHANGED <<users, products, ledger, now, last>>

\* INSERT INTO order_items for the next validated item
CreateInsertItem(self) ==
  LET me == proc[self]
  IN /\ me.pc = "insertItem"
     /\ order_items' = [order_items EXCEPT ![me.orderId] = Append(@, me.rows[me.k])]
     /\ proc' = [proc EXCEPT ![self] = [me EXCEPT !.pc = "updateStock"]]
     /\ UNCHANGED <<users, products, orders, nextOrderId, ledger, now, last>>

\* UPDATE products SET stock_quantity = stock_quantity - $1 for the same item
CreateUpdateStock(self) ==
  LET me == proc[self]
      atEnd == me.k = Len(me.rows)
  IN /\ me.pc = "updateStock"
     /\ products' = DecrementStock(products, <<me.rows[me.k]>>)
     /\ proc' = [proc EXCEPT ![self] =
                   [me EXCEPT !.k = IF atEnd THEN me.k ELSE me.k + 1,
                              !.pc = IF atEnd THEN "debtEur" ELSE "insertItem"]]
     /\ UNCHANGED <<users, orders, order_items, nextOrderId, ledger, now, last>>

\* the EUR debt row of the pending order, if its EUR total is positive
CreateInsertEurDebt(self) ==
  LET me == proc[self]
      finalEurTotal == PendingTotal(products, me.rows, "EUR")
  IN /\ me.pc = "debtEur"
     /\ ledger' = ledger \o CreationEntries(me.actor, finalEurTotal, 0, me.actor, now)
     /\ proc' = [proc EXCEPT ![self] = [me EXCEPT !.pc = "debtMkd"]]
     /\ UNCHANGED <<users, products, orders, order_items, nextOrderId, now, last>>

\* the MKD debt row, then the 201 response
CreateInsertMkdDebt(self) ==
  LET me == proc[self]
      finalMkdTotal == PendingTotal(products, me.rows, "MKD")
  IN /\ me.pc = "debtMkd"
     /\ ledger' = ledger \o CreationEntries(me.actor, 0, finalMkdTotal, me.actor, now)
     /\ proc' = [proc EXCEPT ![self] = [me EXCEPT !.pc = "done", !.code = 201]]
     /\ UNCHANGED <<users, products, orders, order_items, nextOrderId, now, last>>

NextCreateRace ==
  \E self \in Procs :
    \/ CreateBegin(self)
    \/ CreateValidateItem(self)
    \/ CreateInsertOrder(self)
    \/ CreateInsertItem(self)
    \/ CreateUpdateStock(self)
    \/ CreateInsertEurDebt(self)
    \/ CreateInsertMkdDebt(self)

SpecCreateRace == Init /\ [][NextCreateRace]_vars

\* both creations answered 201
BothCreated == \A self \in Procs : proc[self].pc = "done" /\ proc[self].code = 201

\* C30: two concurrent creations never succeed together when their combined
\* quantity of a product exceeds its stock, and under every interleaving of
\* their stock checks and stock decrements stock_quantity stays >= 0
C30_ConcurrentCreationsKeepStock ==
  /\ \A p \in ProductIds : products[p].stock_quantity >= 0
  /\ BothCreated
       => \A p \in ProductIds :
            RequestedUnits(proc[1].items, p) + RequestedUnits(proc[2].items, p)
              <= InitStock[p]

(***************************************************************************)
(* PUT /orders/:id served for two requests on the same order.  Each        *)
(* handler runs its statements between BEGIN and COMMIT on a connection of *)
(* its own, at the READ COMMITTED level Postgres gives by default: a       *)
(* statement reads what is committed when it starts and what its own       *)
(* transaction wrote, and an UPDATE of a row that another open transaction *)
(* wrote waits until that transaction ends.  No statement locks the order. *)
(* Both requests carry items and no status, as the order page sends them.  *)
(***************************************************************************)
RaceEditLists ==
  { <<PricedItem(1, 3, 10)>>, <<PricedItem(1, 1, 10)>>, <<PricedItem(3, 2, 20)>>,
    <<PricedItem(2, 1, 5), PricedItem(1, 2, 10)>> }

\* the order both requests edit
RaceOrderId == nextOrderId - 1

\* a client places the order, before either edit arrives
PlaceOrder ==
  /\ orders = << >>
  /\ \A p \in Procs : proc[p].pc = "idle"
  /\ \E items \in DiscountedItemLists : CreateOrder(3, 0, "", "pending", items, NoDiscount)
  /\ UNCHANGED proc

\* the transactions that have ended, by COMMIT or by ROLLBACK
Finished == Cardinality({p \in Procs : proc[p].pc = "done"})

\* a transaction that reads the tables as they were when the first handler
\* started, whatever was committed since
TablesAtBegin(self) == IF proc[self].writing THEN proc[self].work ELSE proc[self].base

\* what a statement of the transaction reads: the committed tables, or the
\* transaction's own version of them once it has written
TablesOf(self) == IF proc[self].writing THEN proc[self].work ELSE Database

\* another open transaction has written the row of product p
LockedByOther(self, p) == \E other \in Procs \ {self} : p \in proc[other].locks

\* another open transaction has deleted or inserted items of the order
ItemsWrittenByOther(self) ==
  \E other \in Procs \ {self} :
    proc[other].writing /\ proc[other].pc \in {"insert", "reconcile", "commit", "rollback"}

\* the existence check, BEGIN and checkItemsChanged; an unchanged list is
\* committed at once
EditBegin(self) ==
  /\ proc[self].pc = "idle"
  /\ RaceOrderId \in DOMAIN orders
  /\ \E items \in RaceEditLists :
       LET originalItems == AsRequestItems(order_items[RaceOrderId])
           changed == checkItemsChanged(originalItems, items)
           begun == {p \in Procs : proc[p].pc # "idle"}
           base == IF begun = {} THEN Database ELSE proc[CHOOSE p \in begun : TRUE].base
       IN proc' = [proc EXCEPT ![self] =
                     [IdleProc EXCEPT !.pc = IF changed THEN "select" ELSE "done",
                                      !.code = IF changed THEN 0 ELSE 200,
                                      !.orderId = RaceOrderId, !.items = items,
                                      !.originalItems = originalItems, !.base = base,
                                      !.endAt = IF changed THEN 0 ELSE Finished + 1]]
  /\ UNCHANGED <<users, products, orders, order_items, nextOrderId, ledger, now, last>>

\* SELECT oi.product_id, oi.quantity ... WHERE oi.order_id = $1: currentItems
EditSelectItems(self) ==
  LET me == proc[self]
      currentItems == TablesOf(self).order_items[me.orderId]
  IN /\ me.pc = "select"
     /\ proc' = [proc EXCEPT ![self] =
                   [me EXCEPT !.rows = currentItems, !.k = 1, !.readAt = Finished,
                              !.pc = IF currentItems = <<>> THEN "delete" ELSE "restore"]]
     /\ UNCHANGED <<users, products, orders, order_items, nextOrderId, ledger, now, last>>

\* UPDATE products SET stock_quantity = stock_quantity + $1 for the next of
\* currentItems; it waits while another transaction holds the row
EditRestoreItem(self) ==
  LET me == proc[self]
      row == me.rows[me.k]
      atEnd == me.k = Len(me.rows)
  IN /\ me.pc = "restore"
     /\ ~LockedByOther(self, row.product_id)
     /\ proc' = [proc EXCEPT ![self] =
                   [me EXCEPT !.work = [TablesOf(self) EXCEPT
                                          !.products = RestoreStock(@, <<row>>)],
                              !.writing = TRUE,
                              !.locks = @ \cup {row.product_id},
                              !.k = IF atEnd THEN 1 ELSE me.k + 1,
                              !.pc = IF atEnd THEN "delete" ELSE "restore"]]
     /\ UNCHANGED <<users, products, orders, order_items, nextOrderId, ledger, now, last>>

\* DELETE FROM order_items WHERE order_id = $1
EditDeleteItems(self) ==
  LET me == proc[self]
  IN /\ me.pc = "delete"
     /\ ~ItemsWrittenByOther(self)
     /\ proc' = [proc EXCEPT ![self] =
                   [me EXCEPT !.work = [TablesOf(self) EXCEPT !.order_items[me.orderId] = <<>>],
                              !.writing = TRUE, !.k = 1, !.pc = "insert"]]
     /\ UNCHANGED <<users, products, orders, order_items, nextOrderId, ledger, now, last>>

\* one turn of the loop over the new items: SELECT stock_quantity, throw if
\* it is short, UPDATE products, INSERT INTO order_items
EditInsertItem(self) ==
  LET me == proc[self]
      item == me.items[me.k]
      mine == TablesOf(self)
      r == InsertItems(mine.products, mine.order_items[me.orderId], <<item>>)
      atEnd == me.k = Len(me.items)
  IN /\ me.pc = "insert"
     /\ r.products # mine.products => ~LockedByOther(self, item.productId)
     /\ proc' = [proc EXCEPT ![self] =
                   IF ~r.ok
                   THEN [me EXCEPT !.work = [mine EXCEPT !.products = r.products],
                                   !.pc = "rollback"]
                   ELSE [me EXCEPT !.work = [mine EXCEPT !.products = r.products,
                                                         !.order_items[me.orderId] = r.rows],
                                   !.locks = @ \cup {item.productId},
                                   !.k = IF atEnd THEN me.k ELSE me.k + 1,
                                   !.pc = IF atEnd THEN "reconcile" ELSE "insert"]]
     /\ UNCHANGED <<users, products, orders, order_items, nextOrderId, ledger, now, last>>

\* calculateNetDebtChange, the two ledger inserts, the new total of the order
EditReconcile(self) ==
  LET me == proc[self]
      mine == TablesOf(self)
      clientId == mine.orders[me.orderId].client_id
      net == calculateNetDebtChange(mine.products, me.originalItems, me.items)
      logged == NetChangeInserts(users, mine.ledger, clientId, net, AdminId, now)
      finalTotal == FinalTotal(mine.order_items[me.orderId], FALSE, 0)
      ok == logged.ok /\ Storable(finalTotal)
  IN /\ me.pc = "reconcile"
     /\ proc' = [proc EXCEPT ![self] =
                   [me EXCEPT !.work = [mine EXCEPT !.ledger = logged.ledger,
                                                    !.orders[me.orderId].total_amount =
                                                       IF ok THEN finalTotal ELSE @],
                              !.pc = IF ok THEN "commit" ELSE "rollback"]]
     /\ UNCHANGED <<users, products, orders, order_items, nextOrderId, ledger, now, last>>

\* COMMIT: what the transaction wrote becomes the tables, its locks are gone
EditCommit(self) ==
  LET me == proc[self]
  IN /\ me.pc = "commit"
     /\ products' = me.work.products
     /\ orders' = me.work.orders
     /\ order_items' = me.work.order_items
     /\ ledger' = me.work.ledger
     /\ proc' = [proc EXCEPT ![self] =
                   [me EXCEPT !.pc = "done", !.code = 200, !.writing = FALSE,
                              !.locks = {}, !.work = NoTables, !.endAt = Finished + 1]]
     /\ UNCHANGED <<users, nextOrderId, now, last>>

\* ROLLBACK after a throw: the tables stay as committed, the locks are gone
EditRollback(self) ==
  LET me == proc[self]
  IN /\ me.pc = "rollback"
     /\ proc' = [proc EXCEPT ![self] =
                   [me EXCEPT !.pc = "done", !.code = 500, !.writing = FALSE,
                              !.locks = {}, !.work = NoTables, !.endAt = Finished + 1]]
     /\ UNCHANGED <<users, products, orders, order_items, nextOrderId, ledger, now, last>>

NextEditRace ==
  \/ PlaceOrder
  \/ \E self \in Procs :
       \/ EditBegin(self)
       \/ EditSelectItems(self)
       \/ EditRestoreItem(self)
       \/ EditDeleteItems(self)
       \/ EditInsertItem(self)
       \/ EditReconcile(self)
       \/ EditCommit(self)
       \/ EditRollback(self)

SpecEditRace == Init /\ [][NextEditRace]_vars

\* at most one transaction at a time has written anything: the first UPDATE
\* of each is on the row of the first stored item
OneWriterAtATime == Cardinality({p \in Procs : proc[p].writing}) <= 1

\* the body of the request of a handler
RequestOf(self) ==
  UpdateRequest("", TRUE, proc[self].items, proc[self].originalItems, KeepNoDiscount)

\* the tables after the two requests are served one after the other
SerialEdits(first, second) ==
  LET base == proc[first].base
      t1 == UpdateOrderTransaction(base, users, proc[first].orderId,
                                   RequestOf(first), AdminId, now)
      d1 == EndTransaction(base, t1)
      t2 == UpdateOrderTransaction(d1, users, proc[second].orderId,
                                   RequestOf(second), AdminId, now)
  IN EndTransaction(d1, t2)

BothEdited == \A p \in Procs : proc[p].pc = "done" /\ proc[p].orderId # 0

\* the handler replaced the items of the order and committed
ReplacedItems(self) == proc[self].code = 200 /\ proc[self].k > 0

\* the transaction that ended first, and the one that ended second
FirstEnded == CHOOSE p \in Procs : proc[p].endAt = 1
SecondEnded == CHOOSE p \in Procs : proc[p].endAt = 2

\* the second transaction read the items of the order while the first, which
\* replaced them, was still open
ReadStaleItems ==
  /\ ReplacedItems(FirstEnded)
  /\ proc[SecondEnded].k > 0
  /\ proc[SecondEnded].readAt = 0

\* every product has the stock it had before the edits, plus the old items
\* of the order twice, less the new items of both requests
OldItemsRestoredTwice ==
  LET base == proc[FirstEnded].base
      id == proc[FirstEnded].orderId
  IN \A p \in ProductIds :
       products[p].stock_quantity
         = base.products[p].stock_quantity + 2 * UnitsIn(base.order_items[id], p)
             - RequestedUnits(proc[1].items, p) - RequestedUnits(proc[2].items, p)

\* C21: two concurrent edits of one order, each in its own transaction and
\* with no lock on the order, leave the tables as one of the serial orders
\* does unless the later one read the items before the earlier one committed;
\* then the later one gives the old items' stock back a second time and the
\* stock no longer matches the stored items
C21_StaleReadRestoresTwice ==
  BothEdited =>
    /\ ~ReadStaleItems => Database = SerialEdits(FirstEnded, SecondEnded)
    /\ (ReadStaleItems /\ ReplacedItems(SecondEnded)) => OldItemsRestoredTwice

\* both edits answered 200, the tables are those of neither serial order,
\* and the stock taken from inventory is not the stock the orders hold
C21_Witness ==
  /\ BothEdited
  /\ \A p \in Procs : ReplacedItems(p)
  /\ Database \notin {SerialEdits(1, 2), SerialEdits(2, 1)}
  /\ OldItemsRestoredTwice
  /\ ~C3_StockConservation

====
